---- MODULE Spec2Model ----
(***************************************************************************)
(* State-machine model of the sodalite frontend's synchronisation core:     *)
(*   - useWebSocket            (push channel, src/unnamed/part_012)         *)
(*   - HealthCheckProvider     (src/frontend/context/HealthCheckContext.tsx)*)
(*   - HealthCheckProvider, earlier probe-only variant (src/unnamed/part_000)*)
(*   - DownloadProvider        (src/frontend/context/DownloadContext.tsx)   *)
(*                                                                         *)
(* React is modelled at the granularity of event-loop tasks: all setState   *)
(* calls of one handler are batched, and the commit they cause (render,     *)
(* effect cleanup, effect re-run) completes before the next task, so an     *)
(* action contains the handler together with the effects its state change   *)
(* triggers.                                                               *)
(***************************************************************************)
EXTENDS Naturals, Sequences, FiniteSets

VARIABLES
  now,              \* the wall clock read by new Date()
  \* ---- useWebSocket
  ws,               \* wsRef.current's socket: "null" | "connecting" | "open" | "errored"
  isConnected,      \* useState isConnected
  reconnectTimer,   \* a reconnect setTimeout is pending
  stats,            \* useState stats
  \* ---- HealthCheckProvider
  isServerOnline,
  isConnecting,
  lastChecked,      \* <<>> for null, <<t>> for a Date
  probes,           \* healthCheck() requests in flight
  lastProbe,        \* history: how the most recently completed probe ended
  \* ---- HealthCheckProvider, probe-only variant
  poServerOnline,
  poLastChecked,
  poLastSuccessfulCheck,
  poHeartbeats,
  poProbes,
  \* ---- DownloadProvider
  tasks,            \* useState tasks: sequence of Task records, newest first
  callbacks,        \* running invocations of the async interval callback
  nextId,           \* the next task_id the server will assign
  transportFailed,  \* history: ids whose poll was marked failed by the catch branch
  srv,              \* the server: how far each job has come on ServerPhases
  \* ---- DownloadProvider, earlier progress variant
  pTasks,           \* useState tasks: Task records with a progress field
  pRequests,        \* getTaskStatus requests in flight, per task_id
  pNextId,          \* the next task_id the server will assign
  \* ---- useWebSocket across effect runs (path changes) and unmount
  chMounted,        \* the component using the hook is mounted
  chRef,            \* wsRef.current: "null", or the readyState of the socket it holds
  chOrphans,        \* sockets wsRef no longer holds whose handlers are still attached
  chTimerRef,       \* reconnectTimeoutRef.current holds a timeout that is pending
  chStray,          \* pending timeouts reconnectTimeoutRef no longer holds
  chIsConnected,    \* useState isConnected
  chRemounts        \* how often the effect re-ran for a new path

healthVars == <<ws, isConnected, reconnectTimer, stats,
                isServerOnline, isConnecting, lastChecked, probes, lastProbe>>
probeOnlyVars == <<poServerOnline, poLastChecked, poLastSuccessfulCheck,
                   poHeartbeats, poProbes>>
downloadVars == <<tasks, callbacks, nextId, transportFailed, srv>>
progressVars == <<pTasks, pRequests, pNextId>>
channelVars == <<chMounted, chRef, chOrphans, chTimerRef, chStray, chIsConnected,
                 chRemounts>>
vars == <<now, healthVars, probeOnlyVars, downloadVars, progressVars, channelVars>>

\* ------------------------------------------------------------------ bounds
MaxTime == 3
MaxProbes == 2
MaxStat == 2
MaxJobs == 2
MaxCallbacks == 2
MaxRequests == 2
MaxSockets == 3
MaxStray == 2
MaxRemounts == 2

JobIds == 1..MaxJobs

NoDate == <<>>
DateAt(t) == <<t>>

Missing == <<>>
\* the initial useState value of stats: every field null
NoStats == [heartbeats |-> Missing, connectedClients |-> Missing,
            totalConversions |-> Missing, totalBandwidthMB |-> Missing]

\* parsed "stats" messages: every field present, or only heartbeats present
StatsMessages ==
  {[heartbeats |-> <<v>>, connected_clients |-> <<v>>,
    total_conversions |-> <<v>>, total_bandwidth_mb |-> <<v>>] : v \in 1..MaxStat}
  \cup {[heartbeats |-> <<1>>, connected_clients |-> Missing,
         total_conversions |-> Missing, total_bandwidth_mb |-> Missing]}

\* ------------------------------------------------------------------ clock
Tick ==
  /\ now < MaxTime
  /\ now' = now + 1
  /\ UNCHANGED <<healthVars, probeOnlyVars, downloadVars, progressVars, channelVars>>

\* =================================================================
\* HealthCheckProvider (current variant)
\* =================================================================

\* the effect on [isConnected]: runs when isConnected changed, acts when it is true
ConnectedEffectMissingLastSeen(changed, connected) ==
  IF changed /\ connected
    THEN /\ isServerOnline' = TRUE
         /\ isConnecting' = FALSE
         /\ UNCHANGED lastChecked
    ELSE UNCHANGED <<isServerOnline, isConnecting, lastChecked>>

ConnectedEffect(changed, connected) ==
  IF changed /\ connected
    THEN /\ isServerOnline' = TRUE
         /\ isConnecting' = FALSE
         /\ lastChecked' = DateAt(now)
    ELSE UNCHANGED <<isServerOnline, isConnecting, lastChecked>>

\* setIsConnected(v) followed by the commit it causes
SetIsConnected(v) ==
  /\ isConnected' = v
  /\ ConnectedEffect(isConnected # v, v)

\* the interval (or the mount) calls checkStatus(): a request goes out
ProbeStart ==
  /\ probes < MaxProbes
  /\ probes' = probes + 1
  /\ UNCHANGED <<now, ws, isConnected, reconnectTimer, stats,
                 isServerOnline, isConnecting, lastChecked, lastProbe>>
  /\ UNCHANGED <<probeOnlyVars, downloadVars, progressVars, channelVars>>

ProbeOkKeepsConnecting ==
  /\ isServerOnline' = TRUE
  /\ lastChecked' = DateAt(now)
  /\ UNCHANGED isConnecting

\* try branch, data.status === "ok"
ProbeOkBranch ==
  /\ isServerOnline' = TRUE
  /\ isConnecting' = FALSE
  /\ lastChecked' = DateAt(now)

ProbeCatchReconnecting ==
  /\ isServerOnline' = FALSE
  /\ isConnecting' = TRUE
  /\ UNCHANGED lastChecked

\* catch branch
ProbeCatchBranch ==
  /\ isServerOnline' = FALSE
  /\ isConnecting' = FALSE
  /\ UNCHANGED lastChecked

\* the awaited healthCheck() settles: "ok", "notok" (resolved, status is not
\* "ok" or no data), or "throw" (the request rejected)
ProbeResolve(r) ==
  /\ probes > 0
  /\ probes' = probes - 1
  /\ lastProbe' = r
  /\ CASE r = "ok" -> ProbeOkBranch
       [] r = "notok" -> UNCHANGED <<isServerOnline, isConnecting, lastChecked>>
       [] r = "throw" -> ProbeCatchBranch
  /\ UNCHANGED <<now, ws, isConnected, reconnectTimer, stats>>
  /\ UNCHANGED <<probeOnlyVars, downloadVars, progressVars, channelVars>>

\* =================================================================
\* useWebSocket
\* =================================================================

\* connect(): new WebSocket(url) either returns a socket in CONNECTING state or
\* throws, in which case the catch branch schedules a retry
ConnectCall(throws) ==
  IF throws
    THEN /\ SetIsConnected(FALSE)
         /\ reconnectTimer' = TRUE
         /\ UNCHANGED ws
    ELSE /\ ws' = "connecting"
         /\ reconnectTimer' = FALSE
         /\ UNCHANGED <<isConnected, isServerOnline, isConnecting, lastChecked>>

\* ws.onopen
WsOpen ==
  /\ ws = "connecting"
  /\ ws' = "open"
  /\ SetIsConnected(TRUE)
  /\ reconnectTimer' = FALSE
  /\ UNCHANGED <<now, stats, probes, lastProbe>>
  /\ UNCHANGED <<probeOnlyVars, downloadVars, progressVars, channelVars>>

WsMessageResetsStats(kind, m) ==
  /\ ws = "open"
  /\ stats' = IF kind = "stats"
                THEN [heartbeats |-> m.heartbeats,
                      connectedClients |-> m.connected_clients,
                      totalConversions |-> m.total_conversions,
                      totalBandwidthMB |-> m.total_bandwidth_mb]
                ELSE NoStats
  /\ UNCHANGED <<now, ws, isConnected, reconnectTimer,
                 isServerOnline, isConnecting, lastChecked, probes, lastProbe>>
  /\ UNCHANGED <<probeOnlyVars, downloadVars, progressVars, channelVars>>

\* ws.onmessage: kind is "ping", "stats", "unknown" (another type) or
\* "malformed" (JSON.parse throws and the catch logs it)
WsMessage(kind, m) ==
  /\ ws = "open"
  /\ stats' = IF kind = "stats"
                THEN [heartbeats |-> m.heartbeats,
                      connectedClients |-> m.connected_clients,
                      totalConversions |-> m.total_conversions,
                      totalBandwidthMB |-> m.total_bandwidth_mb]
                ELSE stats
  /\ UNCHANGED <<now, ws, isConnected, reconnectTimer,
                 isServerOnline, isConnecting, lastChecked, probes, lastProbe>>
  /\ UNCHANGED <<probeOnlyVars, downloadVars, progressVars, channelVars>>

\* ws.onerror: the browser fires close after it
WsError ==
  /\ ws \in {"connecting", "open"}
  /\ ws' = "errored"
  /\ SetIsConnected(FALSE)
  /\ UNCHANGED <<now, reconnectTimer, stats, probes, lastProbe>>
  /\ UNCHANGED <<probeOnlyVars, downloadVars, progressVars, channelVars>>

\* ws.onclose
WsClose ==
  /\ ws \in {"connecting", "open", "errored"}
  /\ ws' = "null"
  /\ SetIsConnected(FALSE)
  /\ reconnectTimer' = TRUE
  /\ UNCHANGED <<now, stats, probes, lastProbe>>
  /\ UNCHANGED <<probeOnlyVars, downloadVars, progressVars, channelVars>>

\* the reconnect timeout fires and calls connect()
ReconnectFire(throws) ==
  /\ reconnectTimer
  /\ ConnectCall(throws)
  /\ UNCHANGED <<now, stats, probes, lastProbe>>
  /\ UNCHANGED <<probeOnlyVars, downloadVars, progressVars, channelVars>>

\* =================================================================
\* HealthCheckProvider, earlier probe-only variant
\* =================================================================

PoProbeStart ==
  /\ poProbes < MaxProbes
  /\ poProbes' = poProbes + 1
  /\ UNCHANGED <<now, poServerOnline, poLastChecked, poLastSuccessfulCheck,
                 poHeartbeats>>
  /\ UNCHANGED <<healthVars, downloadVars, progressVars, channelVars>>

\* try branch: the request resolved with data.heartbeats = h
PoProbeOk(h) ==
  /\ poProbes > 0
  /\ poProbes' = poProbes - 1
  /\ poServerOnline' = TRUE
  /\ poHeartbeats' = <<h>>
  /\ poLastSuccessfulCheck' = DateAt(now)
  /\ poLastChecked' = DateAt(now)
  /\ UNCHANGED now
  /\ UNCHANGED <<healthVars, downloadVars, progressVars, channelVars>>

\* catch branch
PoProbeFail ==
  /\ poProbes > 0
  /\ poProbes' = poProbes - 1
  /\ poServerOnline' = FALSE
  /\ poLastChecked' = IF poLastSuccessfulCheck = NoDate
                        THEN DateAt(now)
                        ELSE poLastSuccessfulCheck
  /\ UNCHANGED <<now, poLastSuccessfulCheck, poHeartbeats>>
  /\ UNCHANGED <<healthVars, downloadVars, progressVars, channelVars>>

\* =================================================================
\* DownloadProvider
\* =================================================================

Statuses == {"processing", "completed", "failed"}
Phases == {"initializing", "downloading", "processing", "completed", "failed"}
SyntheticError == "failed to get status update."

\* ProcessResponse bodies (without task_id), as POST /process and GET /task/{id}
\* return them
ProcessResponses ==
  { [status |-> "processing", download_url |-> "none", error |-> "none"],
    [status |-> "completed", download_url |-> "X", error |-> "none"],
    [status |-> "failed", download_url |-> "none", error |-> "server error"] }

\* the body of POST /process: a job the server has just created
CreationResponses ==
  { [status |-> "processing", download_url |-> "none", error |-> "none"] }

\* the ProcessResponse bodies GET /task/{id} returns once the phase endpoint
\* has reported a status other than "processing"
FinalStatuses == {r \in ProcessResponses : r.status # "processing"}

\* TaskPhase bodies, as GET /task/{id}/phase returns them: the phases of a
\* running job, a job whose status is final while its phase still lags (the
\* second poll of the spec's scenario), and the two final phases
TaskPhases ==
  { [phase |-> "initializing", status |-> "processing"],
    [phase |-> "downloading", status |-> "processing"],
    [phase |-> "processing", status |-> "processing"],
    [phase |-> "processing", status |-> "completed"],
    [phase |-> "completed", status |-> "completed"],
    [phase |-> "failed", status |-> "failed"] }

\* setTasks((prev) => prev.map((t) => t.task_id === id ? {...t, phase} : t))
SetPhase(ts, id, phase) ==
  [n \in 1..Len(ts) |->
     IF ts[n].task_id = id THEN [ts[n] EXCEPT !.phase = phase] ELSE ts[n]]

\* setTasks((prev) => prev.map(...)) with the final status
SetFinal(ts, id, finalStatus) ==
  [n \in 1..Len(ts) |->
     IF ts[n].task_id = id
       THEN [ts[n] EXCEPT !.status = finalStatus.status,
                          !.phase = IF finalStatus.status = "completed"
                                      THEN "completed" ELSE "failed",
                          !.download_url = finalStatus.download_url,
                          !.error = finalStatus.error]
       ELSE ts[n]]

SetFailedRemoves(ts, id) ==
  SelectSeq(ts, LAMBDA t : t.task_id # id)

\* setTasks((prev) => prev.map(...)) of the catch branch
SetFailed(ts, id) ==
  [n \in 1..Len(ts) |->
     IF ts[n].task_id = id
       THEN [ts[n] EXCEPT !.status = "failed", !.phase = "failed",
                          !.error = SyntheticError]
       ELSE ts[n]]

IsProcessing(t) == t.status = "processing"

\* the activeTasks array the effect's closure holds for the current tasks
ActiveTasks(ts) == SelectSeq(ts, IsProcessing)

\* A running callback is [todo, pc, lo]: todo is the part of its activeTasks
\* array the for loop has still to finish (task_id and phase of each entry, as
\* they were when the effect ran), pc the await it is suspended at for
\* Head(todo), lo the server's position for that job when the request went out.
Snapshot(ts) == [n \in 1..Len(ts) |-> [task_id |-> ts[n].task_id, phase |-> ts[n].phase]]

\* the task a running callback is working on
CurrentTask(c) == Head(c.todo)

\* the for loop of a callback moves on: the next getTaskPhase goes out, or the
\* callback returns
Advance(k) ==
  LET c == callbacks[k] IN
  IF Len(c.todo) > 1
    THEN callbacks' = [callbacks EXCEPT ![k] =
                         [todo |-> Tail(c.todo), pc |-> "phase",
                          lo |-> srv[Head(Tail(c.todo)).task_id]]]
    ELSE callbacks' = [n \in 1..(Len(callbacks) - 1) |->
                         IF n < k THEN callbacks[n] ELSE callbacks[n + 1]]

\* the interval of the current effect fires: the async callback starts and
\* awaits getTaskPhase for the first active task
IntervalTick ==
  /\ Len(callbacks) < MaxCallbacks
  /\ ActiveTasks(tasks) # <<>>
  /\ callbacks' = Append(callbacks,
                         [todo |-> Snapshot(ActiveTasks(tasks)), pc |-> "phase",
                          lo |-> srv[Head(ActiveTasks(tasks)).task_id]])
  /\ UNCHANGED <<tasks, nextId, transportFailed, srv>>
  /\ UNCHANGED <<now, healthVars, probeOnlyVars, progressVars, channelVars>>

\* getTaskPhase resolved with r
PhaseResolve(k, r) ==
  /\ k \in 1..Len(callbacks)
  /\ callbacks[k].pc = "phase"
  /\ LET task == CurrentTask(callbacks[k])
     IN /\ tasks' = IF r.phase # task.phase
                      THEN SetPhase(tasks, task.task_id, r.phase)
                      ELSE tasks
        /\ IF r.status # "processing"
             THEN callbacks' = [callbacks EXCEPT ![k].pc = "status"]
             ELSE Advance(k)
  /\ UNCHANGED <<nextId, transportFailed, srv>>
  /\ UNCHANGED <<now, healthVars, probeOnlyVars, progressVars, channelVars>>

\* getTaskStatus resolved with finalStatus
StatusResolve(k, finalStatus) ==
  /\ k \in 1..Len(callbacks)
  /\ callbacks[k].pc = "status"
  /\ tasks' = SetFinal(tasks, CurrentTask(callbacks[k]).task_id, finalStatus)
  /\ Advance(k)
  /\ UNCHANGED <<nextId, transportFailed, srv>>
  /\ UNCHANGED <<now, healthVars, probeOnlyVars, progressVars, channelVars>>

\* getTaskPhase or getTaskStatus rejected: the catch branch
PollFail(k) ==
  /\ k \in 1..Len(callbacks)
  /\ LET task == CurrentTask(callbacks[k])
     IN /\ tasks' = SetFailed(tasks, task.task_id)
        /\ transportFailed' =
             IF \E n \in 1..Len(tasks) : tasks[n].task_id = task.task_id
               THEN transportFailed \cup {task.task_id}
               ELSE transportFailed
  /\ Advance(k)
  /\ UNCHANGED <<nextId, srv>>
  /\ UNCHANGED <<now, healthVars, probeOnlyVars, progressVars, channelVars>>

AddTaskAtTail(response) ==
  /\ nextId <= MaxJobs
  /\ LET newTask == [task_id |-> nextId,
                     status |-> response.status,
                     download_url |-> response.download_url,
                     error |-> response.error,
                     phase |-> "initializing"]
     IN tasks' = Append(tasks, newTask)
  /\ nextId' = nextId + 1
  /\ UNCHANGED <<callbacks, transportFailed, srv>>
  /\ UNCHANGED <<now, healthVars, probeOnlyVars, progressVars, channelVars>>

\* addTask(task, ...): task is the response of processDownload
AddTask(response) ==
  /\ nextId <= MaxJobs
  /\ LET newTask == [task_id |-> nextId,
                     status |-> response.status,
                     download_url |-> response.download_url,
                     error |-> response.error,
                     phase |-> "initializing"]
     IN tasks' = <<newTask>> \o tasks
  /\ nextId' = nextId + 1
  /\ UNCHANGED <<callbacks, transportFailed, srv>>
  /\ UNCHANGED <<now, healthVars, probeOnlyVars, progressVars, channelVars>>

ClearTaskDropsNewer(taskId) ==
  /\ \E n \in 1..Len(tasks) : tasks[n].task_id = taskId
  /\ tasks' = SelectSeq(tasks, LAMBDA task : task.task_id < taskId)
  /\ UNCHANGED <<callbacks, nextId, transportFailed, srv>>
  /\ UNCHANGED <<now, healthVars, probeOnlyVars, progressVars, channelVars>>

\* clearTask(taskId), called from the row of a listed task
ClearTask(taskId) ==
  /\ \E n \in 1..Len(tasks) : tasks[n].task_id = taskId
  /\ tasks' = SelectSeq(tasks, LAMBDA task : task.task_id # taskId)
  /\ UNCHANGED <<callbacks, nextId, transportFailed, srv>>
  /\ UNCHANGED <<now, healthVars, probeOnlyVars, progressVars, channelVars>>

IsNotCompleted(t) == t.status # "completed"

ClearAllTasksKeepsFailed ==
  /\ tasks # <<>>
  /\ tasks' = SelectSeq(tasks, IsNotCompleted)
  /\ UNCHANGED <<callbacks, nextId, transportFailed, srv>>
  /\ UNCHANGED <<now, healthVars, probeOnlyVars, progressVars, channelVars>>

\* clearAllTasks(), called from the list's header while the list is shown
ClearAllTasks ==
  /\ tasks # <<>>
  /\ tasks' = SelectSeq(tasks, IsProcessing)
  /\ UNCHANGED <<callbacks, nextId, transportFailed, srv>>
  /\ UNCHANGED <<now, healthVars, probeOnlyVars, progressVars, channelVars>>

NextDownloads ==
  \/ IntervalTick
  \/ \E k \in 1..MaxCallbacks, r \in TaskPhases : PhaseResolve(k, r)
  \/ \E k \in 1..MaxCallbacks, f \in FinalStatuses : StatusResolve(k, f)
  \/ \E k \in 1..MaxCallbacks : PollFail(k)
  \/ \E response \in ProcessResponses : AddTask(response)
  \/ \E id \in 1..MaxJobs : ClearTask(id)
  \/ ClearAllTasks

\* the provider behind a server that answers POST /process with a job it has
\* just created
NextEnqueue ==
  \/ IntervalTick
  \/ \E k \in 1..MaxCallbacks, r \in TaskPhases : PhaseResolve(k, r)
  \/ \E k \in 1..MaxCallbacks, f \in FinalStatuses : StatusResolve(k, f)
  \/ \E k \in 1..MaxCallbacks : PollFail(k)
  \/ \E response \in CreationResponses : AddTask(response)
  \/ \E id \in 1..MaxJobs : ClearTask(id)
  \/ ClearAllTasks

\* =================================================================
\* DownloadProvider against a server that reports a job's phases in order
\* =================================================================

\* what GET /task/{id}/phase reports over the life of a job that succeeds
ServerPhases ==
  << [phase |-> "initializing", status |-> "processing"],
     [phase |-> "downloading", status |-> "processing"],
     [phase |-> "processing", status |-> "processing"],
     [phase |-> "processing", status |-> "completed"],
     [phase |-> "completed", status |-> "completed"] >>

\* what GET /task/{id} reports once the job has succeeded
ServerFinal == [status |-> "completed", download_url |-> "X", error |-> "none"]

\* the server moves a created job on by one position
ServerStep(id) ==
  /\ id < nextId
  /\ srv[id] < Len(ServerPhases)
  /\ srv' = [srv EXCEPT ![id] = srv[id] + 1]
  /\ UNCHANGED <<tasks, callbacks, nextId, transportFailed>>
  /\ UNCHANGED <<now, healthVars, probeOnlyVars, progressVars, channelVars>>

\* getTaskPhase resolved: the body is what the server reported at some moment
\* between the request going out and now
OrderedPhaseResolve(k) ==
  /\ k \in 1..Len(callbacks)
  /\ \E i \in callbacks[k].lo .. srv[CurrentTask(callbacks[k]).task_id] :
       PhaseResolve(k, ServerPhases[i])

\* getTaskStatus resolved for a job the server has finished
OrderedStatusResolve(k) == StatusResolve(k, ServerFinal)

NextOrdered ==
  \/ IntervalTick
  \/ \E k \in 1..MaxCallbacks : OrderedPhaseResolve(k)
  \/ \E k \in 1..MaxCallbacks : OrderedStatusResolve(k)
  \/ \E k \in 1..MaxCallbacks : PollFail(k)
  \/ \E response \in CreationResponses : AddTask(response)
  \/ \E id \in 1..MaxJobs : ClearTask(id)
  \/ ClearAllTasks
  \/ \E id \in JobIds : ServerStep(id)

\* =================================================================
\* DownloadProvider, earlier progress variant
\* =================================================================

ProgressCap == 95
ProgressDone == 100

\* values of Math.random() * 5, which lies in [0, 5)
Increments == {2, 4}

Min(a, b) == IF a < b THEN a ELSE b

ProgressTickAnyStatus(incs) ==
  /\ pTasks' = [n \in 1..Len(pTasks) |->
                  IF pTasks[n].progress < ProgressCap
                    THEN [pTasks[n] EXCEPT !.progress =
                            Min(pTasks[n].progress + incs[pTasks[n].task_id], ProgressCap)]
                    ELSE pTasks[n]]
  /\ UNCHANGED <<pRequests, pNextId>>
  /\ UNCHANGED <<now, healthVars, probeOnlyVars, downloadVars, channelVars>>

\* progressInterval: every processing task below the cap advances by its own
\* random increment
ProgressTick(incs) ==
  /\ pTasks' = [n \in 1..Len(pTasks) |->
                  IF pTasks[n].status = "processing" /\ pTasks[n].progress < ProgressCap
                    THEN [pTasks[n] EXCEPT !.progress =
                            Min(pTasks[n].progress + incs[pTasks[n].task_id], ProgressCap)]
                    ELSE pTasks[n]]
  /\ UNCHANGED <<pRequests, pNextId>>
  /\ UNCHANGED <<now, healthVars, probeOnlyVars, downloadVars, channelVars>>

\* statusInterval: one getTaskStatus goes out for every processing task
StatusTick ==
  /\ \E n \in 1..Len(pTasks) : pTasks[n].status = "processing"
  /\ \A n \in 1..Len(pTasks) :
       pTasks[n].status = "processing" => pRequests[pTasks[n].task_id] < MaxRequests
  /\ pRequests' = [id \in JobIds |->
                     IF \E n \in 1..Len(pTasks) :
                          pTasks[n].task_id = id /\ pTasks[n].status = "processing"
                       THEN pRequests[id] + 1
                       ELSE pRequests[id]]
  /\ UNCHANGED <<pTasks, pNextId>>
  /\ UNCHANGED <<now, healthVars, probeOnlyVars, downloadVars, channelVars>>

PApplyStatusKeepsProgress(ts, id, updatedTask) ==
  [n \in 1..Len(ts) |->
     IF ts[n].task_id = id
       THEN [ts[n] EXCEPT !.status = updatedTask.status,
                          !.download_url = updatedTask.download_url,
                          !.error = updatedTask.error]
       ELSE ts[n]]

\* setTasks((prevTasks) => prevTasks.map(...)) of the .then branch
PApplyStatus(ts, id, updatedTask) ==
  [n \in 1..Len(ts) |->
     IF ts[n].task_id = id
       THEN [ts[n] EXCEPT !.status = updatedTask.status,
                          !.download_url = updatedTask.download_url,
                          !.error = updatedTask.error,
                          !.progress = IF updatedTask.status = "completed"
                                         THEN ProgressDone ELSE ts[n].progress]
       ELSE ts[n]]

\* getTaskStatus(id) resolved with updatedTask
PStatusResolve(id, updatedTask) ==
  /\ pRequests[id] > 0
  /\ pRequests' = [pRequests EXCEPT ![id] = pRequests[id] - 1]
  /\ pTasks' = IF updatedTask.status # "processing"
                 THEN PApplyStatus(pTasks, id, updatedTask)
                 ELSE pTasks
  /\ UNCHANGED pNextId
  /\ UNCHANGED <<now, healthVars, probeOnlyVars, downloadVars, channelVars>>

\* getTaskStatus(id) rejected: the .catch branch only logs
PStatusReject(id) ==
  /\ pRequests[id] > 0
  /\ pRequests' = [pRequests EXCEPT ![id] = pRequests[id] - 1]
  /\ UNCHANGED <<pTasks, pNextId>>
  /\ UNCHANGED <<now, healthVars, probeOnlyVars, downloadVars, channelVars>>

\* addTask(task, ...)
PAddTask(response) ==
  /\ pNextId <= MaxJobs
  /\ LET newTask == [task_id |-> pNextId,
                     status |-> response.status,
                     download_url |-> response.download_url,
                     error |-> response.error,
                     progress |-> 0]
     IN pTasks' = <<newTask>> \o pTasks
  /\ pNextId' = pNextId + 1
  /\ UNCHANGED pRequests
  /\ UNCHANGED <<now, healthVars, probeOnlyVars, downloadVars, channelVars>>

\* clearTask(taskId), called from the row of a listed task
PClearTask(taskId) ==
  /\ \E n \in 1..Len(pTasks) : pTasks[n].task_id = taskId
  /\ pTasks' = SelectSeq(pTasks, LAMBDA task : task.task_id # taskId)
  /\ UNCHANGED <<pRequests, pNextId>>
  /\ UNCHANGED <<now, healthVars, probeOnlyVars, downloadVars, channelVars>>

\* clearAllTasks(): filters the tasks of the render it was created in
PClearAllTasks ==
  /\ pTasks # <<>>
  /\ pTasks' = SelectSeq(pTasks, IsProcessing)
  /\ UNCHANGED <<pRequests, pNextId>>
  /\ UNCHANGED <<now, healthVars, probeOnlyVars, downloadVars, channelVars>>

NextProgress ==
  \/ \E incs \in [JobIds -> Increments] : ProgressTick(incs)
  \/ StatusTick
  \/ \E id \in JobIds, r \in ProcessResponses : PStatusResolve(id, r)
  \/ \E id \in JobIds : PStatusReject(id)
  \/ \E response \in ProcessResponses : PAddTask(response)
  \/ \E id \in JobIds : PClearTask(id)
  \/ PClearAllTasks

\* =================================================================
\* useWebSocket across effect runs and unmount
\* =================================================================

NoOrphans == [connecting |-> 0, open |-> 0, closing |-> 0]

\* sockets that exist and have not fired close
Sockets(ref, orphans) ==
  (IF ref = "null" THEN 0 ELSE 1)
    + orphans.connecting + orphans.open + orphans.closing

\* wsRef.current is overwritten or nulled: the socket it held, if any, lives on
Orphaned(ref, orphans) ==
  IF ref = "null" THEN orphans ELSE [orphans EXCEPT ![ref] = orphans[ref] + 1]

\* setIsConnected(v): a state update of an unmounted component does nothing
ChSetIsConnected(v) ==
  chIsConnected' = IF chMounted THEN v ELSE chIsConnected

\* connect(), entered with wsRef.current = ref, the sockets orphans, and the
\* timeouts timerRef, stray pending
ChConnect(ref, orphans, timerRef, stray, throws) ==
  IF throws
    THEN /\ ChSetIsConnected(FALSE)
         /\ chTimerRef' = TRUE
         /\ chStray' = IF timerRef THEN stray + 1 ELSE stray
         /\ chRef' = ref
         /\ chOrphans' = orphans
    ELSE /\ chRef' = "connecting"
         /\ chOrphans' = Orphaned(ref, orphans)
         /\ chTimerRef' = timerRef
         /\ chStray' = stray
         /\ UNCHANGED chIsConnected

\* the socket wsRef.current holds after the effect's cleanup called close() on it
ClosedByCleanup(ref) == IF ref \in {"connecting", "open"} THEN "closing" ELSE ref

\* ws.onopen of the socket wsRef holds (held) or of an orphan
ChOpen(held) ==
  /\ IF held
       THEN /\ chRef = "connecting"
            /\ chRef' = "open"
            /\ UNCHANGED chOrphans
       ELSE /\ chOrphans.connecting > 0
            /\ chOrphans' = [chOrphans EXCEPT !.connecting = chOrphans.connecting - 1,
                                              !.open = chOrphans.open + 1]
            /\ UNCHANGED chRef
  /\ chTimerRef' = FALSE
  /\ UNCHANGED <<chMounted, chStray, chRemounts>>
  /\ ChSetIsConnected(TRUE)
  /\ UNCHANGED <<now, healthVars, probeOnlyVars, downloadVars, progressVars>>

\* ws.onerror of a socket in readyState st: the browser fires close after it
ChError(held, st) ==
  /\ st \in {"connecting", "open"}
  /\ IF held
       THEN /\ chRef = st
            /\ chRef' = "closing"
            /\ UNCHANGED chOrphans
       ELSE /\ chOrphans[st] > 0
            /\ chOrphans' = [chOrphans EXCEPT ![st] = chOrphans[st] - 1,
                                              !.closing = chOrphans.closing + 1]
            /\ UNCHANGED chRef
  /\ UNCHANGED <<chMounted, chTimerRef, chStray, chRemounts>>
  /\ ChSetIsConnected(FALSE)
  /\ UNCHANGED <<now, healthVars, probeOnlyVars, downloadVars, progressVars>>

ChCloseNoRetry(held, st) ==
  /\ IF held
       THEN /\ chRef = st
            /\ chOrphans' = chOrphans
       ELSE /\ chOrphans[st] > 0
            /\ chOrphans' = Orphaned(chRef, [chOrphans EXCEPT ![st] = chOrphans[st] - 1])
  /\ chRef' = "null"
  /\ UNCHANGED <<chTimerRef, chStray>>
  /\ UNCHANGED <<chMounted, chRemounts>>
  /\ ChSetIsConnected(FALSE)
  /\ UNCHANGED <<now, healthVars, probeOnlyVars, downloadVars, progressVars>>

\* ws.onclose of a socket in readyState st
ChClose(held, st) ==
  /\ chStray + (IF chTimerRef THEN 1 ELSE 0) <= MaxStray
  /\ IF held
       THEN /\ chRef = st
            /\ chOrphans' = chOrphans
       ELSE /\ chOrphans[st] > 0
            /\ chOrphans' = Orphaned(chRef, [chOrphans EXCEPT ![st] = chOrphans[st] - 1])
  /\ chRef' = "null"
  /\ chTimerRef' = TRUE
  /\ chStray' = IF chTimerRef THEN chStray + 1 ELSE chStray
  /\ UNCHANGED <<chMounted, chRemounts>>
  /\ ChSetIsConnected(FALSE)
  /\ UNCHANGED <<now, healthVars, probeOnlyVars, downloadVars, progressVars>>

\* a pending timeout fires and calls connect(): the one reconnectTimeoutRef
\* holds (held) or a stray one
ChReconnectFire(held, throws) ==
  /\ Sockets(chRef, chOrphans) < MaxSockets
  /\ IF held
       THEN /\ chTimerRef
            /\ ChConnect(chRef, chOrphans, FALSE, chStray, throws)
       ELSE /\ chStray > 0
            /\ ChConnect(chRef, chOrphans, chTimerRef, chStray - 1, throws)
  /\ UNCHANGED <<chMounted, chRemounts>>
  /\ UNCHANGED <<now, healthVars, probeOnlyVars, downloadVars, progressVars>>

\* path changed: the effect's cleanup runs, then the effect calls connect()
ChPathChange(throws) ==
  /\ chMounted
  /\ chRemounts < MaxRemounts
  /\ Sockets(chRef, chOrphans) < MaxSockets
  /\ chRemounts' = chRemounts + 1
  /\ ChConnect(ClosedByCleanup(chRef), chOrphans, FALSE, chStray, throws)
  /\ UNCHANGED chMounted
  /\ UNCHANGED <<now, healthVars, probeOnlyVars, downloadVars, progressVars>>

\* unmount: the effect's cleanup runs
ChUnmount ==
  /\ chMounted
  /\ chMounted' = FALSE
  /\ chTimerRef' = FALSE
  /\ chRef' = ClosedByCleanup(chRef)
  /\ UNCHANGED <<chOrphans, chStray, chIsConnected, chRemounts>>
  /\ UNCHANGED <<now, healthVars, probeOnlyVars, downloadVars, progressVars>>

SocketStates == {"connecting", "open", "closing"}

NextChannel ==
  \/ \E held \in BOOLEAN : ChOpen(held)
  \/ \E held \in BOOLEAN, st \in SocketStates : ChError(held, st)
  \/ \E held \in BOOLEAN, st \in SocketStates : ChClose(held, st)
  \/ \E held \in BOOLEAN, throws \in BOOLEAN : ChReconnectFire(held, throws)
  \/ \E throws \in BOOLEAN : ChPathChange(throws)
  \/ ChUnmount

\* =================================================================
\* Initial state: the providers are mounted and their mount effects have run
\* =================================================================

InitHealth ==
  /\ isConnected = FALSE
  /\ stats = NoStats
  /\ \/ ws = "connecting" /\ reconnectTimer = FALSE   \* connect() made a socket
     \/ ws = "null" /\ reconnectTimer = TRUE          \* new WebSocket threw
  /\ isServerOnline = FALSE
  /\ isConnecting = TRUE
  /\ lastChecked = NoDate
  /\ probes = 1                                       \* checkStatus() on mount
  /\ lastProbe = "none"

InitProbeOnly ==
  /\ poServerOnline = TRUE
  /\ poLastChecked = NoDate
  /\ poHeartbeats = Missing
  /\ poLastSuccessfulCheck = NoDate
  /\ poProbes = 1                                     \* checkStatus() on mount

InitDownloads ==
  /\ tasks = <<>>
  /\ callbacks = <<>>
  /\ nextId = 1
  /\ transportFailed = {}
  /\ srv = [id \in JobIds |-> 1]

InitProgress ==
  /\ pTasks = <<>>
  /\ pRequests = [id \in JobIds |-> 0]
  /\ pNextId = 1

\* the effect has run connect() once: the socket is connecting, or the
\* constructor threw and the retry is scheduled
InitChannel ==
  /\ chMounted = TRUE
  /\ chOrphans = NoOrphans
  /\ chStray = 0
  /\ chIsConnected = FALSE
  /\ chRemounts = 0
  /\ \/ chRef = "connecting" /\ chTimerRef = FALSE
     \/ chRef = "null" /\ chTimerRef = TRUE

Init ==
  /\ now = 0
  /\ InitHealth
  /\ InitProbeOnly
  /\ InitDownloads
  /\ InitProgress
  /\ InitChannel

NextLiveness ==
  \/ Tick
  \/ ProbeStart
  \/ \E r \in {"ok", "notok", "throw"} : ProbeResolve(r)
  \/ WsOpen
  \/ \E m \in StatsMessages : WsMessage("stats", m)
  \/ \E kind \in {"ping", "unknown", "malformed"} : WsMessage(kind, NoStats)
  \/ WsError
  \/ WsClose
  \/ \E throws \in BOOLEAN : ReconnectFire(throws)

SpecLiveness == Init /\ [][NextLiveness]_vars

NextProbeOnly ==
  \/ Tick
  \/ PoProbeStart
  \/ \E h \in 1..MaxStat : PoProbeOk(h)
  \/ PoProbeFail

SpecProbeOnly == Init /\ [][NextProbeOnly]_vars

\* the job registry alone: the push channel stays as its first connect() left it
\* the push connection of the provider is being established
InitSession == Init /\ ws = "connecting"

InitRegistry == InitSession /\ chRef = "connecting"

SpecChannel == InitSession /\ [][NextChannel]_vars

SpecDownloads == InitRegistry /\ [][NextDownloads]_vars

SpecEnqueue == InitRegistry /\ [][NextEnqueue]_vars

SpecOrdered == InitRegistry /\ [][NextOrdered]_vars

\* The provider with a job that stays listed and requests that all succeed,
\* under fair scheduling: the interval keeps firing while it exists, every
\* request is answered, and the server keeps working on its jobs.
NextConverge ==
  \/ IntervalTick
  \/ \E k \in 1..MaxCallbacks : OrderedPhaseResolve(k)
  \/ \E k \in 1..MaxCallbacks : OrderedStatusResolve(k)
  \/ \E response \in CreationResponses : AddTask(response)
  \/ \E id \in JobIds : ServerStep(id)

FairConverge ==
  /\ WF_vars(IntervalTick)
  /\ \A k \in 1..MaxCallbacks : WF_vars(OrderedPhaseResolve(k))
  /\ \A k \in 1..MaxCallbacks : WF_vars(OrderedStatusResolve(k))
  /\ \A id \in JobIds : WF_vars(ServerStep(id))

SpecConverge == InitRegistry /\ [][NextConverge]_vars /\ FairConverge

SpecProgress == InitRegistry /\ [][NextProgress]_vars

\* =================================================================
\* Properties of the liveness monitor
\* =================================================================

\* C1: whenever the push channel is connected, isOnline is true (OR semantics),
\* also after a probe failed while the channel was connected.
C1_ConnectedImpliesOnline == isConnected => isServerOnline

\* C2: when the channel is disconnected and the most recent probe failed,
\* isOnline is false.
C2_BothFailingImpliesOffline ==
  (~isConnected /\ lastProbe = "throw") => ~isServerOnline

\* C3: lastSeen is always exactly the time of the last positive signal (null
\* while there has been none): no failure advances it or rewinds it.
C3_LastSeenIsLastPositive == poLastChecked = poLastSuccessfulCheck

\* (current variant, for comparison) a failed probe leaves lastChecked alone.
LivenessFailureKeepsLastChecked ==
  [][(probes' = probes - 1 /\ lastProbe' = "throw") => lastChecked' = lastChecked]_vars

\* C4: isConnecting is true at cold start and, once false, is never true again.
C4_ConnectingLatch ==
  /\ isConnecting = TRUE
  /\ [][isConnecting' => isConnecting]_vars

\* the latch is off, and since then the channel dropped and a probe failed
C4_Witness ==
  /\ ~isConnecting
  /\ lastChecked # NoDate
  /\ ~isConnected
  /\ reconnectTimer
  /\ lastProbe = "throw"

\* C5: isOnline and isConnecting are never both true.
C5_OnlineConnectingExclusive == ~(isServerOnline /\ isConnecting)

\* a probe succeeded and the monitor shows online
C5_Witness == isServerOnline /\ ~isConnecting /\ lastProbe = "ok"

\* C6: a probe that succeeds with status ok, and the channel becoming connected,
\* each leave isOnline = true, isConnecting = false and lastSeen = the time of
\* that signal, whatever the other source says.
C6_PositiveSignal ==
  [][ ( \/ (probes' = probes - 1 /\ lastProbe' = "ok")
        \/ (~isConnected /\ isConnected') )
      => (isServerOnline' /\ ~isConnecting' /\ lastChecked' = DateAt(now)) ]_vars

\* the channel connected after the latest probe had failed, and that alone
\* made the monitor online at the current time
C6_Witness ==
  /\ isConnected
  /\ lastProbe = "throw"
  /\ isServerOnline
  /\ now > 0
  /\ lastChecked = DateAt(now)

\* =================================================================
\* Properties of the job registry
\* =================================================================

Present(ts, id) == \E n \in 1..Len(ts) : ts[n].task_id = id

\* the record of job id in ts (id is present)
Job(ts, id) == ts[CHOOSE n \in 1..Len(ts) : ts[n].task_id = id]

\* the callbacks suspended at a request (phase poll or full-status fetch) for id
PollsInFlight(cbs, id) ==
  {k \in 1..Len(cbs) : CurrentTask(cbs[k]).task_id = id}

\* the callbacks suspended at a phase poll for id
PhasePolls(cbs, id) ==
  {k \in 1..Len(cbs) : CurrentTask(cbs[k]).task_id = id /\ cbs[k].pc = "phase"}

\* C7: a job never has more than one poll (phase request or follow-up
\* full-status fetch) outstanding.
C7_AtMostOnePollInFlight ==
  \A id \in JobIds : Cardinality(PollsInFlight(callbacks, id)) <= 1

\* C8: a step changes the record of a job that stays in the list only if the
\* job's outcome was processing before the step (results for terminal jobs are
\* discarded), and no step puts a removed job back.
C8_AppliedOnlyWhileProcessing ==
  [][\A id \in JobIds :
       /\ (Present(tasks, id) /\ Present(tasks', id)
             /\ Job(tasks', id) # Job(tasks, id))
            => Job(tasks, id).status = "processing"
       /\ (id < nextId /\ ~Present(tasks, id)) => ~Present(tasks', id)]_vars

\* C9: every job whose outcome is completed has phase completed, and every job
\* whose outcome is failed has phase failed.
C9_PhaseAgreesWithOutcome ==
  \A n \in 1..Len(tasks) :
    /\ tasks[n].status = "completed" => tasks[n].phase = "completed"
    /\ tasks[n].status = "failed" => tasks[n].phase = "failed"

\* C10: the step in which a poll of a listed job fails leaves the job failed
\* with phase failed and the synthetic error, and no later step issues a phase
\* poll for a job that was failed this way.
C10_FailedNeverPolledAgain ==
  [][\A id \in JobIds :
       /\ (id \in transportFailed' /\ id \notin transportFailed)
            => /\ Present(tasks', id)
               /\ Job(tasks', id).status = "failed"
               /\ Job(tasks', id).phase = "failed"
               /\ Job(tasks', id).error = SyntheticError
       /\ id \in transportFailed
            => Cardinality(PhasePolls(callbacks', id))
                 <= Cardinality(PhasePolls(callbacks, id))]_vars

\* =================================================================
\* Properties of the progress estimate (progress variant)
\* =================================================================

PPresent(ts, id) == \E n \in 1..Len(ts) : ts[n].task_id = id

PJob(ts, id) == ts[CHOOSE n \in 1..Len(ts) : ts[n].task_id = id]

Pos(ts, id) == CHOOSE n \in 1..Len(ts) : ts[n].task_id = id

\* the jobs of after appear in before in the same relative order
SameOrder(before, after) ==
  \A i, j \in 1..Len(after) :
    i < j => Pos(before, after[i].task_id) < Pos(before, after[j].task_id)

\* C14: a clearAllTasks step removes every job whose outcome is not
\* processing and keeps exactly the processing jobs, each unchanged, in their
\* order.
C14_ClearAllKeepsProcessing ==
  [][ClearAllTasks =>
       /\ \A id \in JobIds :
            Present(tasks', id) <=>
              (Present(tasks, id) /\ Job(tasks, id).status = "processing")
       /\ \A id \in JobIds :
            Present(tasks', id) => Job(tasks', id) = Job(tasks, id)
       /\ SameOrder(tasks, tasks')]_vars

\* clearAllTasks can act on a list holding a processing job and a terminal one
C14_Witness ==
  /\ Len(tasks) = 2
  /\ tasks[1].status = "failed"
  /\ tasks[2].status = "processing"
  /\ tasks[2].phase = "downloading"

C16_ClearTaskRemovesForGood ==
  /\ [](\A id \in JobIds : Present(tasks, id) => ENABLED ClearTask(id))
  /\ [][\A id \in JobIds :
          /\ ClearTask(id) =>
               /\ ~Present(tasks', id)
               /\ \A other \in JobIds \ {id} :
                    /\ Present(tasks', other) <=> Present(tasks, other)
                    /\ Present(tasks', other) => Job(tasks', other) = Job(tasks, other)
               /\ SameOrder(tasks, tasks')
          /\ (id < nextId /\ ~Present(tasks, id)) => ~Present(tasks', id)]_vars

\* a job was removed while a poll for it is still in flight, and another job
\* is still listed
C16_Witness ==
  \E id \in JobIds :
    /\ id < nextId
    /\ ~Present(tasks, id)
    /\ PollsInFlight(callbacks, id) # {}
    /\ tasks # <<>>

\* =================================================================
\* Properties of the completion flow
\* =================================================================

\* the record t carries a progress estimate of 100
HasProgressDone(t) == "progress" \in DOMAIN t /\ t.progress = ProgressDone

\* a full status applied to a listed job gives it the status's outcome, the
\* matching phase, and the status's artifact and error
CompletionAppliesOutcome ==
  [][\A k \in 1..MaxCallbacks, f \in FinalStatuses :
       (StatusResolve(k, f) /\ Present(tasks, CurrentTask(callbacks[k]).task_id)) =>
         LET job == Job(tasks', CurrentTask(callbacks[k]).task_id)
         IN /\ job.status = f.status
            /\ job.phase = f.status
            /\ job.download_url = f.download_url
            /\ job.error = f.error]_vars

\* C13: when the full status fetched after a non-processing phase poll is
\* applied to a listed job, a completed status with artifact X leaves the job
\* with outcome completed, phase completed, progress estimate 100 and artifact
\* X, and a failed status leaves it with outcome failed, phase failed and the
\* server's error.
C13_CompletionFlow ==
  [][\A k \in 1..MaxCallbacks, f \in FinalStatuses :
       (StatusResolve(k, f) /\ Present(tasks, CurrentTask(callbacks[k]).task_id)) =>
         LET job == Job(tasks', CurrentTask(callbacks[k]).task_id)
         IN /\ f.status = "completed" =>
                 /\ job.status = "completed"
                 /\ job.phase = "completed"
                 /\ HasProgressDone(job)
                 /\ job.download_url = f.download_url
            /\ f.status = "failed" =>
                 /\ job.status = "failed"
                 /\ job.phase = "failed"
                 /\ job.error = f.error]_vars

\* =================================================================
\* Properties of the phase shown for a job
\* =================================================================

\* the place of a phase in initializing, downloading, processing, terminal
Rank(phase) ==
  CASE phase = "initializing" -> 1
    [] phase = "downloading" -> 2
    [] phase = "processing" -> 3
    [] OTHER -> 4

\* C12: when a phase poll of a listed processing job returns a phase other
\* than the one held for the job by the poll that asked, the list shows the
\* returned phase after the step; and with a server that reports a job's
\* phases in order, no step moves the phase of a listed job back.
C12_PhaseFollowsPollAndNeverRegresses ==
  [][/\ \A k \in 1..MaxCallbacks, r \in TaskPhases :
          (/\ PhaseResolve(k, r)
           /\ Present(tasks, CurrentTask(callbacks[k]).task_id)
           /\ Job(tasks, CurrentTask(callbacks[k]).task_id).status = "processing"
           /\ CurrentTask(callbacks[k]).phase # r.phase)
            => Job(tasks', CurrentTask(callbacks[k]).task_id).phase = r.phase
     /\ \A id \in JobIds :
          (Present(tasks, id) /\ Present(tasks', id))
            => Rank(Job(tasks', id).phase) >= Rank(Job(tasks, id).phase)]_vars

\* =================================================================
\* Properties of the push connection across effect runs and unmount
\* =================================================================

\* sockets that are connecting or open
Connections == (IF chRef \in {"connecting", "open"} THEN 1 ELSE 0)
                 + chOrphans.connecting + chOrphans.open

\* timeouts that will call connect()
PendingTimers == (IF chTimerRef THEN 1 ELSE 0) + chStray

\* C17: while the session is live, every close of a socket (after an open
\* connection, a failed handshake, or close() by the cleanup) and every failure
\* to create a socket leaves a reconnect timeout pending, and there is no live
\* state in which no socket exists and no timeout is pending.
C17_ReconnectAlwaysScheduled ==
  /\ [](chMounted => (Sockets(chRef, chOrphans) > 0 \/ PendingTimers > 0))
  /\ [][chMounted =>
          /\ \A held \in BOOLEAN, st \in SocketStates :
               ChClose(held, st) => chTimerRef'
          /\ \A held \in BOOLEAN :
               (ChReconnectFire(held, TRUE) \/ ChPathChange(TRUE)) => chTimerRef']_vars

\* live, every socket gone, one timeout pending, after the path changed once
C17_Witness ==
  /\ chMounted
  /\ Sockets(chRef, chOrphans) = 0
  /\ PendingTimers = 1
  /\ chRemounts = 1

\* C18: at any moment at most one socket is connecting or open and at most one
\* reconnect timeout is pending, across open, close, error and timer events
\* and across repeated runs of the effect.
C18_OneConnectionOneTimer ==
  /\ Connections <= 1
  /\ PendingTimers <= 1

\* C19: after unmount no reconnect timeout is pending and no socket is
\* connecting or open, also after the close event of the socket the cleanup
\* closed has been delivered.
C19_NothingAfterTeardown ==
  ~chMounted => (PendingTimers = 0 /\ Connections = 0)

\* =================================================================
\* Properties of responses that arrive after teardown
\* =================================================================

\* The interval that started callback c has been torn down: the entry c is
\* working on was copied from the list when that interval's effect ran, every
\* setTasks re-runs the effect, so an entry that is no longer in the list as a
\* processing job with that phase shows the list has changed since.
TornDown(c) ==
  ~\E n \in 1..Len(tasks) :
     /\ tasks[n].task_id = CurrentTask(c).task_id
     /\ tasks[n].phase = CurrentTask(c).phase
     /\ tasks[n].status = "processing"

\* C20: a job poll response (phase, full status, or failure) that resolves in
\* a callback whose polling interval has been torn down because the job list
\* changed is discarded: the step leaves the job list as it was.
C20_ResponsesAfterTeardownDiscarded ==
  [][\A k \in 1..Len(callbacks) :
       (/\ TornDown(callbacks[k])
        /\ \/ \E r \in TaskPhases : PhaseResolve(k, r)
           \/ \E f \in FinalStatuses : StatusResolve(k, f)
           \/ PollFail(k))
         => tasks' = tasks]_vars

\* =================================================================
\* Properties of inbound frames
\* =================================================================

OtherFrames == {"ping", "unknown", "malformed"}

\* C21: a ping frame, a frame that fails to parse and a frame with an unknown
\* type leave the statistics, the connected status, the socket and the
\* reconnect timeout as they were; and while the socket is open every
\* well-formed stats frame can be received and is applied, whatever frames
\* came before it.
C21_OtherFramesIgnored ==
  /\ [](ws = "open" => \A m \in StatsMessages : ENABLED WsMessage("stats", m))
  /\ [][/\ \A kind \in OtherFrames :
             WsMessage(kind, NoStats) =>
               /\ stats' = stats
               /\ isConnected' = isConnected
               /\ ws' = ws
               /\ reconnectTimer' = reconnectTimer
        /\ \A m \in StatsMessages :
             WsMessage("stats", m) =>
               /\ stats'.heartbeats = m.heartbeats
               /\ stats'.connectedClients = m.connected_clients]_vars

\* the socket is open and holds a statistics snapshot that other frames can
\* arrive on top of
C21_Witness ==
  /\ ws = "open"
  /\ isConnected
  /\ stats # NoStats
  /\ ENABLED WsMessage("malformed", NoStats)

\* =================================================================
\* Convergence to the server's state
\* =================================================================

\* C22: for every job that stays listed, with requests that all succeed and
\* fair scheduling, from some point on the list's copy of a job the server has
\* finished has the server's outcome, completed, with phase completed.
C22_EventualConvergence ==
  \A id \in JobIds :
    <>[]((Present(tasks, id) /\ srv[id] = Len(ServerPhases))
           => (Job(tasks, id).status = "completed"
                 /\ Job(tasks, id).phase = "completed"))

\* the outcome alone, without the phase
OutcomeConverges ==
  \A id \in JobIds :
    <>[]((Present(tasks, id) /\ srv[id] = Len(ServerPhases))
           => Job(tasks, id).status = "completed")

\* =================================================================
\* Further properties of the liveness monitor
\* =================================================================

\* C23: the step in which a probe fails leaves isOnline false and leaves
\* isConnecting, lastSeen and the statistics as they were; so isConnecting
\* stays true when probes fail before any positive signal.
C23_ProbeFailureOnlyOffline ==
  [][(probes' = probes - 1 /\ lastProbe' = "throw") =>
       /\ ~isServerOnline'
       /\ isConnecting' = isConnecting
       /\ lastChecked' = lastChecked
       /\ stats' = stats]_vars

\* C26: the step in which a stats frame is received and applied leaves
\* lastSeen at least at the time of that frame.
C26_FrameAdvancesLastSeen ==
  [][stats' # stats =>
       /\ lastChecked' # NoDate
       /\ lastChecked'[1] >= now]_vars

\* C28: the step in which a probe completes with a status other than ok
\* leaves isOnline false, as a failed probe does.
C28_NotOkProbeIsOffline ==
  [][(probes' = probes - 1 /\ lastProbe' = "notok") => ~isServerOnline']_vars

\* =================================================================
\* Further properties of polling
\* =================================================================

\* the callbacks awaiting the full status of job id
StatusFetches(cbs, id) ==
  {k \in 1..Len(cbs) : CurrentTask(cbs[k]).task_id = id /\ cbs[k].pc = "status"}

\* C24: the step in which the poll interval fires leaves a phase request in
\* flight for every job whose outcome is processing, so the request for one
\* job does not wait for the request of another job of the same tick.
C24_OneRequestPerActiveJobPerTick ==
  [][IntervalTick =>
       \A n \in 1..Len(tasks) :
         tasks[n].status = "processing"
           => PhasePolls(callbacks', tasks[n].task_id) # {}]_vars

\* C25: the full status of a job is fetched at most once, so two fetches of
\* the full status of one job are never outstanding together.
C25_FullStatusFetchedOnce ==
  \A id \in JobIds : Cardinality(StatusFetches(callbacks, id)) <= 1

\* =================================================================
\* Properties of the synthesized progress estimate
\* =================================================================

C29_TerminalAbsorbing ==
  [][\A id \in JobIds :
       (/\ Present(tasks, id)
        /\ Present(tasks', id)
        /\ Job(tasks, id).status \in {"completed", "failed"})
         => /\ Job(tasks', id).status = Job(tasks, id).status
            /\ Job(tasks', id).phase = Job(tasks, id).phase
            /\ Job(tasks', id).download_url = Job(tasks, id).download_url
            /\ Job(tasks', id).error = Job(tasks, id).error]_vars

\* the ids of the list, in order
IdsOf(ts) == [n \in 1..Len(ts) |-> ts[n].task_id]

\* C30: applying a phase response, a full status or a failure marking leaves
\* the sequence of job ids as it was and changes no job other than the polled
\* one; a step that changes the sequence of ids is an addTask, a clearTask or
\* a clearAllTasks.
C30_ReconciliationKeepsMembership ==
  [][/\ \A k \in 1..Len(callbacks) :
          (\/ \E r \in TaskPhases : PhaseResolve(k, r)
           \/ \E f \in FinalStatuses : StatusResolve(k, f)
           \/ PollFail(k))
            => /\ IdsOf(tasks') = IdsOf(tasks)
               /\ \A n \in 1..Len(tasks) :
                    tasks[n].task_id # CurrentTask(callbacks[k]).task_id
                      => tasks'[n] = tasks[n]
     /\ IdsOf(tasks') # IdsOf(tasks)
          => \/ \E response \in ProcessResponses : AddTask(response)
             \/ \E id \in JobIds : ClearTask(id)
             \/ ClearAllTasks]_vars

\* two jobs listed; the older one was marked failed by a poll that failed, the
\* newer one is as it was
C30_Witness ==
  /\ Len(tasks) = 2
  /\ tasks[2].status = "failed"
  /\ tasks[2].error = SyntheticError
  /\ tasks[1].status = "processing"
  /\ tasks[1].phase = "initializing"

====
